---- MODULE Spec2Model ----
(***************************************************************************)
(* Resource-lifecycle core of nodriver: the two temp-root reapers of       *)
(* nodriver/core/_temp.py, and the extension staging and the argument      *)
(* list of Config in nodriver/core/config.py.                              *)
(*                                                                         *)
(* The system temp root is a listing of entries.  The browser and the      *)
(* other programs of the host are the environment: they change the state   *)
(* of a lock socket and start and stop processes at any point between two  *)
(* steps of a reaper pass.                                                 *)
(***************************************************************************)
EXTENDS Integers, Sequences, FiniteSets, TLC

VARIABLES
    exists,      \* exists[e]: entry e is still present under the temp root
    sock,        \* sock[e]: state of <entry e>/SingletonSocket
    mtime,       \* mtime[e]: st_mtime of entry e
    contents,    \* contents[e]: the members of directory e
    procs,       \* the live processes, each one its command line
    singleton,   \* singleton[p]: pass p of cleanup_chromium_singleton_dirs
    legacy,      \* legacy[p]: pass p of cleanup_legacy_uc_profile_dirs
    rmFailed,    \* history: entries on which a forced removal did not remove
    envChanged,  \* history: the environment changed a socket since Init
    config,      \* config[c]: the fields of Config object c and the call running on it
    stage        \* the staged extension directories on disk and their history

vars == <<exists, sock, mtime, contents, procs, singleton, legacy, rmFailed, envChanged,
          config, stage>>

(***************************************************************************)
(* Bounds of the model.                                                    *)
(***************************************************************************)
MaxRetries == 2      \* retries is drawn from 0..MaxRetries
MaxTime == 2         \* st_mtime is drawn from 0..MaxTime; a pass starts at MaxTime
                     \* with min_age_seconds 1 or MaxTime
MaxProcs == 1        \* processes alive at the same time

Passes == {1, 2}

Max(a, b) == IF a >= b THEN a ELSE b

IsPrefix(s, t) == Len(s) <= Len(t) /\ SubSeq(t, 1, Len(s)) = s

(***************************************************************************)
(* Names are sequences of tokens with their separators, so that            *)
(* str.startswith is a prefix test that can fail: ".org.chromium..."       *)
(* does not start with "org.chromium.Chromium.".                           *)
(***************************************************************************)
startswith(name, prefix) == IsPrefix(prefix, name)

\* _temp.py:48-53
prefixes ==
    { <<"org", ".", "chromium", ".", "Chromium", ".">>,
      <<".", "org", ".", "chromium", ".", "Chromium", ".">>,
      <<"com", ".", "google", ".", "Chrome", ".">>,
      <<".", "com", ".", "google", ".", "Chrome", ".">> }

\* _temp.py:217
LegacyPrefix == <<"uc", "_">>

(***************************************************************************)
(* The listing of tempfile.gettempdir(): two vendor lock directories (one  *)
(* plain, one dot-prefixed), two legacy profile directories (the name of   *)
(* the second extends the name of the first), the nodriver namespace and a *)
(* vendor-prefixed symlink.                                                *)
(***************************************************************************)
TempRoot ==
    << [name |-> <<"org", ".", "chromium", ".", "Chromium", ".", "a1">>, isdir |-> TRUE],
       [name |-> <<".", "com", ".", "google", ".", "Chrome", ".", "b2">>, isdir |-> TRUE],
       [name |-> <<"uc", "_", "a">>, isdir |-> TRUE],
       [name |-> <<"uc", "_", "a", "b">>, isdir |-> TRUE],
       [name |-> <<"nodriver">>, isdir |-> TRUE],
       [name |-> <<"com", ".", "google", ".", "Chrome", ".", "c3">>, isdir |-> FALSE] >>

Entries == 1..Len(TempRoot)

HasVendorPrefix(e) == \E p \in prefixes : startswith(TempRoot[e].name, p)

VendorDirs == { e \in Entries : TempRoot[e].isdir /\ HasVendorPrefix(e) }


(***************************************************************************)
(* SingletonSocket of an entry.                                            *)
(*   absent     no such file                                               *)
(*   refusing   a socket file nobody listens on (a crashed browser's)      *)
(*   listening  a socket file a live browser accepts connections on        *)
(*   hung       a socket file whose owner does not answer within 150 ms    *)
(*   notsock    a regular file of that name                                *)
(*   denied     the directory is not searchable by this user               *)
(***************************************************************************)
SockStates == {"absent", "refusing", "listening", "hung", "notsock", "denied"}

\* What the file system answers for a removed entry.
SockOf(e) == IF exists[e] THEN sock[e] ELSE "absent"

(***************************************************************************)
(* _socket_is_listening, _temp.py:69-96.  The probe is two system calls,   *)
(* stat and connect, and the environment may act between them.             *)
(***************************************************************************)
\* sock_path.stat() and the S_ISSOCK test, _temp.py:70-80
StatOutcome(st) ==
    CASE st = "absent" -> "stat_enoent"
      [] st = "denied" -> "stat_error"
      [] st = "notsock" -> "not_socket"
      [] OTHER -> "is_socket"

\* s.connect(str(sock_path)), _temp.py:84-91.  connect(2) on a path that is
\* no socket fails with ECONNREFUSED.
ConnectOutcome(st) ==
    CASE st = "listening" -> "connected"
      [] st = "refusing" -> "econnrefused"
      [] st = "notsock" -> "econnrefused"
      [] st = "absent" -> "connect_enoent"
      [] st = "hung" -> "timeout"
      [] OTHER -> "eacces"

\* A probe that treats a connect timeout as "nobody listens".
socket_is_listening_TimeoutInactive(outcome) ==
    outcome \notin {"stat_enoent", "econnrefused", "connect_enoent", "timeout"}

\* A probe whose answer after a successful connect is inverted.
socket_is_listening_ConnectedInactive(outcome) ==
    outcome \notin {"stat_enoent", "econnrefused", "connect_enoent", "connected"}

\* The value _socket_is_listening returns for each outcome.
socket_is_listening(outcome) ==
    CASE outcome = "stat_enoent" -> FALSE
      [] outcome = "stat_error" -> TRUE
      [] outcome = "not_socket" -> TRUE
      [] outcome = "connected" -> TRUE
      [] outcome \in {"connect_enoent", "econnrefused"} -> FALSE
      [] OTHER -> TRUE

(***************************************************************************)
(* cleanup_chromium_singleton_dirs, _temp.py:99-137.                       *)
(*   pc       idle, scan, stat, connect, sleep, remove, done, raised, off  *)
(*   d        position of the lazy os.scandir iterator                     *)
(*   i        the loop variable of  for i in range(max(1, retries))        *)
(*   probes   history: the outcomes of the probes of the current candidate *)
(*   fresh    history: the environment changed the current candidate's     *)
(*            socket after the pass last probed it                         *)
(***************************************************************************)
RetryDelays == {-1, 1}

SingletonIdle == [pc |-> "idle", d |-> 1, i |-> 0, retries |-> 0, retry_delay |-> 1,
                  probes |-> <<>>, fresh |-> FALSE]

\* The number of probes of a candidate that stays inactive, _temp.py:116
ProbeCount(retries) == Max(1, retries)

\* The end of one iteration of the probe loop, _temp.py:116-125
NextAttempt(s) ==
    IF s.i + 1 < ProbeCount(s.retries)
    THEN [s EXCEPT !.i = @ + 1, !.pc = "stat"]
    ELSE [s EXCEPT !.pc = "remove"]

\* _temp.py:117-123: an active probe ends the candidate, an inactive one
\* sleeps when another attempt follows.
AfterProbe(s, outcome) ==
    LET t == [s EXCEPT !.probes = Append(@, outcome), !.fresh = FALSE]
    IN  IF socket_is_listening(outcome)
        THEN [t EXCEPT !.pc = "scan", !.d = @ + 1]
        ELSE IF t.i < t.retries - 1
             THEN [t EXCEPT !.pc = "sleep"]
             ELSE NextAttempt(t)

\* A filter that yields a directory without looking for its SingletonSocket.
IsListedCandidate_NoSocketCheck(e) ==
    /\ exists[e]
    /\ TempRoot[e].isdir
    /\ HasVendorPrefix(e)

\* _iter_chromium_singleton_dirs, _temp.py:56-64: the entry is yielded.
IsListedCandidate(e) ==
    /\ exists[e]
    /\ TempRoot[e].isdir
    /\ \E p \in prefixes : startswith(TempRoot[e].name, p)
    /\ SockOf(e) # "absent"

\* (p / "SingletonSocket").exists() raises on an error other than not-found
\* (pathlib before 3.14) or answers False (os.path.exists): both builds.
ExistsRaises(e) == exists[e] /\ TempRoot[e].isdir /\ HasVendorPrefix(e) /\ sock[e] = "denied"

SingletonUnchanged == UNCHANGED <<mtime, contents, procs, legacy, config, stage>>

SingletonStart(p) ==
    /\ singleton[p].pc = "idle"
    /\ \E r \in 0..MaxRetries, dl \in RetryDelays :
         singleton' = [singleton EXCEPT ![p] = [SingletonIdle EXCEPT !.pc = "scan", !.retries = r, !.retry_delay = dl]]
    /\ UNCHANGED <<exists, sock, rmFailed, envChanged>>
    /\ SingletonUnchanged

\* One step of the generator: the next entry is yielded, skipped, or the
\* listing ends (exhausted, or an exception inside the generator's try).
SingletonScan(p) ==
    LET s == singleton[p] IN
    /\ s.pc = "scan"
    /\ \/ /\ s.d > Len(TempRoot)
          /\ singleton' = [singleton EXCEPT ![p].pc = "done"]
       \/ /\ s.d <= Len(TempRoot)
          /\ ExistsRaises(s.d)
          /\ \/ singleton' = [singleton EXCEPT ![p].pc = "done"]
             \/ singleton' = [singleton EXCEPT ![p].d = @ + 1]
       \/ /\ s.d <= Len(TempRoot)
          /\ ~ExistsRaises(s.d)
          /\ IF IsListedCandidate(s.d)
             THEN singleton' = [singleton EXCEPT ![p].pc = "stat", ![p].i = 0,
                                                 ![p].probes = <<>>, ![p].fresh = FALSE]
             ELSE singleton' = [singleton EXCEPT ![p].d = @ + 1]
    /\ UNCHANGED <<exists, sock, rmFailed, envChanged>>
    /\ SingletonUnchanged

SingletonStat(p) ==
    LET s == singleton[p]
        o == StatOutcome(SockOf(s.d))
    IN
    /\ s.pc = "stat"
    /\ IF o = "is_socket"
       THEN singleton' = [singleton EXCEPT ![p].pc = "connect"]
       ELSE singleton' = [singleton EXCEPT ![p] = AfterProbe(s, o)]
    /\ UNCHANGED <<exists, sock, rmFailed, envChanged>>
    /\ SingletonUnchanged

\* socket.socket() and settimeout stand outside every try (_temp.py:82-83):
\* when they fail (EMFILE) the error leaves cleanup_chromium_singleton_dirs.
SingletonConnect(p) ==
    LET s == singleton[p] IN
    /\ s.pc = "connect"
    /\ \/ singleton' = [singleton EXCEPT ![p] = AfterProbe(s, ConnectOutcome(SockOf(s.d)))]
       \/ singleton' = [singleton EXCEPT ![p].pc = "raised"]
    /\ UNCHANGED <<exists, sock, rmFailed, envChanged>>
    /\ SingletonUnchanged

\* time.sleep(retry_delay), _temp.py:120-121: ValueError on a negative delay.
SingletonSleep(p) ==
    LET s == singleton[p] IN
    /\ s.pc = "sleep"
    /\ IF s.retry_delay < 0
       THEN singleton' = [singleton EXCEPT ![p].pc = "raised"]
       ELSE singleton' = [singleton EXCEPT ![p] = NextAttempt(s)]
    /\ UNCHANGED <<exists, sock, rmFailed, envChanged>>
    /\ SingletonUnchanged

\* /bin/rm -rf with check=False, or shutil.rmtree(ignore_errors=True), inside
\* try/except (_temp.py:126-137): the directory is removed, or it is not and
\* nobody is told.  Removing what is already gone is a success.
SingletonRemove(p) ==
    LET s == singleton[p] IN
    /\ s.pc = "remove"
    /\ \/ /\ exists' = [exists EXCEPT ![s.d] = FALSE]
          /\ UNCHANGED rmFailed
       \/ /\ exists[s.d]
          /\ rmFailed' = rmFailed \cup {s.d}
          /\ UNCHANGED exists
    /\ singleton' = [singleton EXCEPT ![p].pc = "scan", ![p].d = @ + 1]
    /\ UNCHANGED <<sock, envChanged>>
    /\ SingletonUnchanged

\* The browser and the rest of the host: a lock socket changes state.
SocketChange(e) ==
    /\ e \in VendorDirs
    /\ exists[e]
    /\ \E st \in SockStates \ {sock[e]} : sock' = [sock EXCEPT ![e] = st]
    /\ envChanged' = TRUE
    /\ singleton' = [p \in Passes |->
                       IF singleton[p].pc \in {"stat", "connect", "sleep", "remove"} /\ singleton[p].d = e
                       THEN [singleton[p] EXCEPT !.fresh = TRUE]
                       ELSE singleton[p]]
    /\ UNCHANGED <<exists, rmFailed>>
    /\ SingletonUnchanged

(***************************************************************************)
(* Paths and command lines.  The temp root is reached through a symlink,   *)
(* so that the literal path and os.path.realpath differ.                   *)
(***************************************************************************)
TmpDir == <<"/", "tmp">>

RealTmpDir == <<"/", "private", "/", "tmp">>

\* pathlib.Path(entry.path), _temp.py:219
LiteralPath(e) == TmpDir \o <<"/">> \o TempRoot[e].name

\* os.path.realpath(str(path)), _temp.py:235
RealPath(e) == RealTmpDir \o <<"/">> \o TempRoot[e].name

Seps == {"=", " "}

\* A browser process is its --user-data-dir argument: the separator it was
\* given with and the path.  Browsers run against the first legacy directory.
CmdLines ==
    { [sep |-> sp, path |-> pa] : sp \in Seps, pa \in {LiteralPath(3), RealPath(3)} }

\* The line ps prints for the process.
Line(c) == <<"chrome", " ", "--user-data-dir", c.sep>> \o c.path \o <<" ", "--no-first-run">>

PsSelf == <<"ps", " ", "axww", " ", "-o", " ", "command=">>

\* The process was launched against directory e.
References(c, e) == c.path \in {LiteralPath(e), RealPath(e)}

\* needle in text, for a text kept as its set of lines.
Contains(line, needle) ==
    \E k \in 0..(Len(line) - Len(needle)) : SubSeq(line, k + 1, k + Len(needle)) = needle

\* ps without -ww: every command line is cut to the width of the terminal.
posix_ps_command_output_Truncated(ok) ==
    IF ok THEN { SubSeq(Line(c), 1, 4) : c \in procs } \cup {PsSelf} ELSE {}

\* _posix_ps_command_output, _temp.py:140-159: the listing, or "" when the
\* platform is not POSIX or ps cannot be run.
posix_ps_command_output(ok) ==
    IF ok THEN { Line(c) : c \in procs } \cup {PsSelf} ELSE {}

\* Needles that know only the "=" separator.
needles_EqualsOnly(e) ==
    { <<"--user-data-dir", "=">> \o pa : pa \in {LiteralPath(e), RealPath(e)} }

\* _temp.py:236-241
needles(e) ==
    { <<"--user-data-dir", "=">> \o LiteralPath(e),
      <<"--user-data-dir", "=">> \o RealPath(e),
      <<"--user-data-dir", " ">> \o LiteralPath(e),
      <<"--user-data-dir", " ">> \o RealPath(e) }

\* _temp.py:234-243: the directory looks active.
LooksActive(ps_out, e) ==
    /\ ps_out # {}
    /\ \E n \in needles(e) : \E l \in ps_out : Contains(l, n)

(***************************************************************************)
(* Directory members and the eligibility tests.                            *)
(***************************************************************************)
LocalStateFile == [name |-> "Local State", isfile |-> TRUE]
LocalStateDir == [name |-> "Local State", isfile |-> FALSE]
DefaultDir == [name |-> "Default", isfile |-> FALSE]
DefaultFile == [name |-> "Default", isfile |-> TRUE]
LastVersionFile == [name |-> "Last Version", isfile |-> TRUE]
OtherFile == [name |-> "notes.txt", isfile |-> TRUE]

ContentChoices ==
    { {}, {LocalStateFile}, {DefaultDir}, {OtherFile, LastVersionFile},
      {OtherFile}, {DefaultFile, LocalStateDir} }

is_file(c, n) == [name |-> n, isfile |-> TRUE] \in c

is_dir(c, n) == [name |-> n, isfile |-> FALSE] \in c

\* An emptiness test that answers True when the directory cannot be read.
is_empty_dir_ErrorIsEmpty(c, err) == IF err THEN TRUE ELSE c = {}

\* _is_empty_dir, _temp.py:176-181
is_empty_dir(c, err) == IF err THEN FALSE ELSE c = {}

\* _looks_like_chrome_user_data_dir, _temp.py:162-173; errAt is the test
\* that raises (0: none), and a test that already answered True has returned.
looks_like_chrome_user_data_dir(c, errAt) ==
    IF errAt = 1 THEN FALSE
    ELSE IF is_file(c, "Local State") THEN TRUE
    ELSE IF errAt = 2 THEN FALSE
    ELSE IF is_dir(c, "Default") THEN TRUE
    ELSE IF errAt = 3 THEN FALSE
    ELSE is_file(c, "Last Version")

\* The directory is empty or profile-shaped, by its members.
ProfileShaped(c) ==
    \/ LocalStateFile \in c
    \/ DefaultDir \in c
    \/ LastVersionFile \in c

(***************************************************************************)
(* cleanup_legacy_uc_profile_dirs, _temp.py:184-258.                       *)
(*   pc       idle, list, examine, remove, done, raised, off               *)
(*   now, min_age, ps_out, entries: the locals of the function             *)
(*   k        index of the current entry in entries                        *)
(*   statOk   history: the current candidate's st_mtime was read           *)
(*   atStart  history: the processes alive when ps_out was taken           *)
(*   caught   history: the body raised for a uc_ directory                 *)
(***************************************************************************)
Now == MaxTime

\* min_age_seconds: the shortest and the longest age the model tells apart.
MinAges == {1, MaxTime}

LegacyDirs == { e \in Entries : TempRoot[e].isdir /\ startswith(TempRoot[e].name, LegacyPrefix) }

LegacyIdle == [pc |-> "idle", now |-> 0, min_age |-> 1, ps_out |-> {}, entries |-> <<>>,
               k |-> 1, statOk |-> TRUE, atStart |-> {}, caught |-> FALSE]

\* A filter that takes every directory of the temp root.
IsLegacyDir_AnyDirectory(e) == TempRoot[e].isdir

IsLegacyDir(e) == TempRoot[e].isdir /\ startswith(TempRoot[e].name, LegacyPrefix)

\* A body without its own try: the error leaves the function.
LegacyOnError_Propagates(l) ==
    [l EXCEPT !.pc = "raised", !.caught = @ \/ IsLegacyDir(l.entries[l.k])]

\* except Exception: continue, _temp.py:257-258
LegacyOnError(l) ==
    [l EXCEPT !.pc = "examine", !.k = @ + 1, !.caught = @ \/ IsLegacyDir(l.entries[l.k])]

\* continue
LegacyNext(l) == [l EXCEPT !.pc = "examine", !.k = @ + 1]

\* _temp.py:221-225
AgeOf(l, e, statOk) == IF statOk THEN l.now - mtime[e] ELSE l.min_age

\* An age gate whose comparison is turned around.
TooYoung_Inverted(age, min_age) == age > min_age

\* if age < min_age_seconds: continue, _temp.py:227-228
TooYoung(age, min_age) == age < min_age

\* list(os.scandir(tmp_dir)): the entries present, in listing order.
ScandirList == SelectSeq([e \in Entries |-> e], LAMBDA e : exists[e])

LegacyUnchanged == UNCHANGED <<sock, mtime, contents, singleton, rmFailed, envChanged, config, stage>>

\* now = time.time(); ps_out = _posix_ps_command_output(), _temp.py:203-205
LegacyStart(p) ==
    /\ legacy[p].pc = "idle"
    /\ \E m \in MinAges, ok \in BOOLEAN :
         legacy' = [legacy EXCEPT ![p] = [LegacyIdle EXCEPT !.pc = "list", !.now = Now, !.min_age = m,
                                              !.ps_out = posix_ps_command_output(ok),
                                              !.atStart = procs]]
    /\ UNCHANGED <<exists, procs>>
    /\ LegacyUnchanged

\* entries = list(os.scandir(...)), or return when it raises, _temp.py:207-210
LegacyList(p) ==
    /\ legacy[p].pc = "list"
    /\ \/ legacy' = [legacy EXCEPT ![p].pc = "examine", ![p].entries = ScandirList, ![p].k = 1]
       \/ legacy' = [legacy EXCEPT ![p].pc = "done"]
    /\ UNCHANGED <<exists, procs>>
    /\ LegacyUnchanged

\* The body of the loop up to the removal, _temp.py:213-243.  An entry that
\* is gone cannot be stat-ed or read.
LegacyExamine(p) ==
    LET l == legacy[p] IN
    /\ l.pc = "examine"
    /\ \/ /\ l.k > Len(l.entries)
          /\ legacy' = [legacy EXCEPT ![p].pc = "done"]
       \/ /\ l.k <= Len(l.entries)
          /\ legacy' = [legacy EXCEPT ![p] = LegacyOnError(l)]
       \/ /\ l.k <= Len(l.entries)
          /\ LET e == l.entries[l.k] IN
             \E statOk \in BOOLEAN, emptyErr \in BOOLEAN, errAt \in 0..3 :
               /\ ~exists[e] => (~statOk /\ emptyErr /\ errAt = 1)
               /\ LET age == AgeOf(l, e, statOk) IN
                  IF \/ ~IsLegacyDir(e)
                     \/ TooYoung(age, l.min_age)
                     \/ ~(is_empty_dir(contents[e], emptyErr)
                            \/ looks_like_chrome_user_data_dir(contents[e], errAt))
                     \/ LooksActive(l.ps_out, e)
                  THEN legacy' = [legacy EXCEPT ![p] = LegacyNext(l)]
                  ELSE legacy' = [legacy EXCEPT ![p].pc = "remove", ![p].statOk = statOk]
    /\ UNCHANGED <<exists, procs>>
    /\ LegacyUnchanged

\* _temp.py:245-256: forced removal, every error swallowed.
LegacyRemove(p) ==
    LET l == legacy[p] IN
    /\ l.pc = "remove"
    /\ \/ exists' = [exists EXCEPT ![l.entries[l.k]] = FALSE]
       \/ exists[l.entries[l.k]] /\ UNCHANGED exists
    /\ legacy' = [legacy EXCEPT ![p] = LegacyNext(l)]
    /\ UNCHANGED procs
    /\ LegacyUnchanged

\* A browser starts against a legacy profile directory, or exits.
ProcStart(c) ==
    /\ c \in CmdLines \ procs
    /\ Cardinality(procs) < MaxProcs
    /\ procs' = procs \cup {c}
    /\ UNCHANGED <<exists, legacy>>
    /\ LegacyUnchanged

ProcExit(c) ==
    /\ c \in procs
    /\ procs' = procs \ {c}
    /\ UNCHANGED <<exists, legacy>>
    /\ LegacyUnchanged

(***************************************************************************)
(* Config: the argument list, config.py:159-176 and 275-329.  A flag is    *)
(* the sequence of the pieces of its text, cut where a test of the code    *)
(* looks into it (a prefix, a reserved word, a letter case).               *)
(***************************************************************************)
MaxArgs == 2         \* calls of add_argument on one Config object

\* self._default_browser_args, config.py:159-172
DefaultBrowserArgs ==
    << <<"--remote-allow-origins=*">>, <<"--no-first-run">>, <<"--no-service-autorun">>,
       <<"--no-default-browser-check">>, <<"--homepage=about:blank">>, <<"--no-pings">>,
       <<"--password-store=basic">>, <<"--disable-infobars">>, <<"--disable-breakpad">>,
       <<"--disable-dev-shm-usage">>, <<"--disable-session-crashed-bubble">>,
       <<"--disable-search-engine-choice-screen">> >>

CrashedBubble == <<"--disable-session-crashed-bubble">>

SiteIsolationTrials == <<"--disable-site-isolation-trials">>

UnsafeDebugging == <<"--enable-unsafe-extension-debugging">>

LoadExtension == <<"--load-extension">>

HeadlessNew == <<"--", "headless", "=new">>

NoSandbox == <<"--", "no-sandbox">>

\* Flags a user passes: to the constructor (the list of the leak test) or to
\* add_argument.
DisableGpu == <<"--disable-gpu">>

NoFirstRun == <<"--no-first-run">>

CustomFlag == <<"--custom-flag", "=1">>

UserLoadExtension == <<"--load-extension", "=", "/u">>

LangUpper == <<"--", "Lang", "=de">>

UserDataDirUnderscore == <<"--user_", "data_dir", "=/x">>

\* The order of Python's str comparison on the flags that can reach sorted().
AsciiOrder ==
    << LangUpper, CustomFlag, <<"--disable-breakpad">>, <<"--disable-dev-shm-usage">>,
       DisableGpu, <<"--disable-infobars">>, <<"--disable-search-engine-choice-screen">>,
       CrashedBubble, UnsafeDebugging, HeadlessNew, <<"--homepage=about:blank">>,
       UserLoadExtension, <<"--no-default-browser-check">>, NoFirstRun, <<"--no-pings">>,
       <<"--no-service-autorun">>, <<"--password-store=basic">>, <<"--remote-allow-origins=*">> >>

Rank(f) == CHOOSE n \in DOMAIN AsciiOrder : AsciiOrder[n] = f

sorted(flags) == SortSeq(flags, LAMBDA a, b : Rank(a) < Rank(b))

\* The browser_args property, config.py:174-176
browser_args_property(cf) == sorted(cf.default_browser_args \o cf.browser_args)

InList(a, flags) == \E n \in DOMAIN flags : flags[n] = a

\* str.lower() on the pieces.
LowerPiece(t) == IF t = "Lang" THEN "lang" ELSE t

\* A check that compares the text as it was given.
lower_NoFold(arg) == arg

lower(arg) == [n \in DOMAIN arg |-> LowerPiece(arg[n])]

\* config.py:316-323
ReservedWords ==
    { <<"headless">>, <<"data-dir">>, <<"data_dir">>, <<"no-sandbox">>, <<"no_sandbox">>, <<"lang">> }

\* config.py:314-324: any(x in arg.lower() for x in [...])
IsReserved(arg) == \E x \in ReservedWords : Contains(lower(arg), x)

\* A builder that never looks at what the user supplied.
HasUserFlag_Never(cf, prefix) == FALSE

\* any(str(a).startswith(prefix) for a in self._browser_args), config.py:290, 294-297
HasUserFlag(cf, prefix) ==
    \E n \in DOMAIN cf.browser_args : startswith(cf.browser_args[n], prefix)

\* ",".join(str(_) for _ in self._extensions), config.py:292
RECURSIVE JoinComma(_)
JoinComma(paths) ==
    IF paths = <<>> THEN <<>>
    ELSE IF Len(paths) = 1 THEN Head(paths)
    ELSE Head(paths) \o <<",">> \o JoinComma(Tail(paths))

\* A builder that starts from the sorted merge of the browser_args property.
CallStart_SortedMerge(cf) == browser_args_property(cf)

\* args = self._default_browser_args.copy(), config.py:279
CallStart(cf) == cf.default_browser_args

\* config.py:280
UserDataDirFlag(cf) == <<"--user-", "data-dir", "=">> \o cf.user_data_dir

\* config.py:283-286
DisableFeaturesFlag(cf) ==
    <<"--disable-features", "=", "IsolateOrigins,site-per-process">>
    \o (IF cf.extensions # <<>> THEN <<",DisableLoadExtensionCommandLineSwitch">> ELSE <<>>)

\* config.py:287-298
ExtensionFlags(cf) ==
    IF cf.extensions = <<>> THEN <<>>
    ELSE (IF ~HasUserFlag(cf, LoadExtension)
          THEN << LoadExtension \o <<"=">> \o JoinComma(cf.extensions) >>
          ELSE <<>>)
         \o (IF ~HasUserFlag(cf, UnsafeDebugging) THEN <<UnsafeDebugging>> ELSE <<>>)

\* config.py:279-300: the list before the user's flags are added.
BuiltFlags(cf) ==
    CallStart(cf)
    \o <<UserDataDirFlag(cf), CrashedBubble, DisableFeaturesFlag(cf)>>
    \o ExtensionFlags(cf)
    \o (IF cf.expert THEN <<SiteIsolationTrials>> ELSE <<>>)

\* config.py:301-310
SessionFlags(cf) ==
    (IF cf.headless THEN <<HeadlessNew>> ELSE <<>>)
    \o (IF ~cf.sandbox THEN <<NoSandbox>> ELSE <<>>)
    \o (IF cf.host # <<>> THEN << <<"--remote-debugging-host", "=">> \o cf.host >> ELSE <<>>)
    \o (IF cf.port # 0 THEN << <<"--remote-debugging-port", "=", ToString(cf.port)>> >> ELSE <<>>)

\* Config.__call__, config.py:275-311
Config_call(cf) ==
    LET args == BuiltFlags(cf) IN
    args \o SelectSeq(cf.browser_args, LAMBDA a : ~InList(a, args)) \o SessionFlags(cf)

\* A builder that extends the list of defaults itself.
DefaultsAfterCall_NoCopy(cf, args) == args

\* config.py:279: the list built is a copy, the defaults are as they were.
DefaultsAfterCall(cf, args) == cf.default_browser_args

\* The fields of a Config object that are its state.
ArgState(cf) ==
    << cf.default_browser_args, cf.browser_args, cf.user_data_dir, cf.headless, cf.sandbox,
       cf.expert, cf.host, cf.port, cf.extension_sources, cf.extensions,
       cf.temp_extension_dirs >>

(***************************************************************************)
(* Config: staging of extensions, config.py:226-273.  A Config object is   *)
(* used by one session; two sessions run their calls concurrently, each    *)
(* on its own Config, over the same temp namespace.  A call is a sequence  *)
(* of steps: one per removal, one per temp directory made, one per         *)
(* archive extracted.                                                      *)
(***************************************************************************)
MaxOps == 2          \* calls begun on one Config object
MaxExt == 2          \* calls of add_extension on one Config object

Configs == {1, 2}

\* pathlib.Path keeps the parts of a path, str() joins them.
Path(parts) == [parts |-> parts]

RECURSIVE JoinParts(_)
JoinParts(parts) ==
    IF parts = <<>> THEN <<>> ELSE <<"/", Head(parts)>> \o JoinParts(Tail(parts))

str(p) == JoinParts(p.parts)

\* The extension sources a user can have added: an unpacked extension (the
\* directory holding the manifest), a packaged extension, and a file that is
\* no archive.
DirSource == Path(<<"home", "ext">>)

ZipSource == Path(<<"home", "a.crx">>)

CorruptSource == Path(<<"home", "b.crx">>)

\* What add_extension can be pointed at besides: a directory with a manifest
\* at its top and another one in a subdirectory, a directory that only wraps
\* the extension's directory, a directory holding two extensions side by
\* side, a directory without any manifest, and a path where nothing is.
NestedSource == Path(<<"home", "nested">>)

WrappedSource == Path(<<"home", "wrap">>)

SiblingSource == Path(<<"home", "multi">>)

BareSource == Path(<<"home", "bare">>)

MissingSource == Path(<<"home", "none">>)

\* item.parent
parent(p) == Path(SubSeq(p.parts, 1, Len(p.parts) - 1))

\* path / name
child(p, name) == Path(Append(p.parts, name))

\* path.exists(), config.py:212
path_exists(p) == p # MissingSource

\* path.is_dir(), config.py:215
path_is_dir(p) ==
    p \in {DirSource, NestedSource, WrappedSource, SiblingSource, BareSource}

\* path.rglob("manifest.*"), config.py:217: the matches in the order of the
\* walk, a directory before its subdirectories; the order of two
\* subdirectories is the order of the directory listing, which is any.
rglob(p) ==
    CASE p = DirSource -> { << child(p, "manifest.json") >> }
      [] p = NestedSource ->
           { << child(p, "manifest.json"), child(child(p, "lib"), "manifest.json") >> }
      [] p = WrappedSource -> { << child(child(p, "inner"), "manifest.json") >> }
      [] p = SiblingSource ->
           { << child(child(p, "a"), "manifest.json"), child(child(p, "b"), "manifest.json") >>,
             << child(child(p, "b"), "manifest.json"), child(child(p, "a"), "manifest.json") >> }
      [] OTHER -> { <<>> }

\* config.py:217-218: "for item in ...: path = item.parent", a loop without
\* break over the matches of the path it was given.
RECURSIVE NormalizeOver(_, _)
NormalizeOver(path, items) ==
    IF items = <<>> THEN path ELSE NormalizeOver(parent(Head(items)), Tail(items))

\* src.is_file(), config.py:238
src_is_file(src) == src \in {ZipSource, CorruptSource}

\* zipfile.ZipFile(src).extractall(tf), config.py:245-246: what it can do.
ExtractOutcomes(src) == IF src = ZipSource THEN {"extracted", "failed"} ELSE {"failed"}

\* _temp.py:15-28: <tmp>/nodriver, or <tmp> when it cannot be made.
nodriver_temp_base(baseOk) ==
    IF baseOk THEN Path(<<"tmp", "nodriver">>) ELSE Path(<<"tmp">>)

\* A helper that gives up on subdirectories once the root cannot be made.
nodriver_temp_dir_RootFailureIsTemp(name, baseOk, subOk) ==
    IF baseOk /\ subOk
    THEN Path(nodriver_temp_base(baseOk).parts \o <<name>>)
    ELSE nodriver_temp_base(baseOk)

\* _temp.py:31-37: <base>/<name>, or the base when it cannot be made.
nodriver_temp_dir(name, baseOk, subOk) ==
    IF subOk
    THEN Path(nodriver_temp_base(baseOk).parts \o <<name>>)
    ELSE nodriver_temp_base(baseOk)

\* A pass-through that hands on the directory above the source.
Passthrough_Parent(src) == str(Path(SubSeq(src.parts, 1, Len(src.parts) - 1)))

\* prepared.append(str(src)), config.py:254
Passthrough(src) == str(src)

\* tempfile.mkdtemp(prefix="extension_", suffix=secrets.token_hex(4), dir=...),
\* config.py:239-243: a name no earlier call was given.
mkdtemp(dir, n) == str(dir) \o <<"/", "extension_", ToString(n)>>

\* tempfile.mkdtemp(prefix="uc_", ...), config.py:365: the name of a profile
\* directory, one no earlier call was given.
ProfileName(n) == <<"uc", "_", ToString(n)>>

\* No profile directory allocated.
NoProfile == [dir |-> Path(<<>>), name |-> <<>>]

\* temp_profile_dir, config.py:362-367: the directory made, as the directory
\* it was made in and its name.
temp_profile_dir(baseOk, subOk, n) ==
    [dir |-> nodriver_temp_dir("profiles", baseOk, subOk), name |-> ProfileName(n)]

\* os.path.normpath of the path mkdtemp returns.
ProfilePath(p) == str(p.dir) \o <<"/">> \o p.name

\* The Config object right after __init__ (config.py:144-146), no call running.
ConfigNew ==
    [ default_browser_args |-> DefaultBrowserArgs,
      browser_args |-> <<>>,
      user_data_dir |-> <<"/", "tmp", "/", "nodriver", "/", "profiles", "/", "uc_", "1">>,
      profile |-> NoProfile,
      ext_adds |-> 0, lastExt |-> Path(<<>>), lastMatches |-> <<>>, extResult |-> "none",
      headless |-> FALSE, sandbox |-> TRUE, expert |-> FALSE, host |-> <<>>, port |-> 0,
      adds |-> 0, lastArg |-> <<>>, addResult |-> "none", added |-> {},
      tick |-> FALSE, called |-> FALSE, repeat |-> FALSE, out |-> <<>>, seen |-> <<>>,
      extension_sources |-> <<>>,
      extensions |-> <<>>,
      temp_extension_dirs |-> {},
      pc |-> "idle", op |-> "none", ops |-> 0, result |-> "none",
      temp_dirs |-> {}, todo |-> {}, attempted |-> {},
      i |-> 1, prepared |-> <<>>, tf |-> <<>>, ret |-> <<>> ]

\* The staged directories, before any call.
StageEmpty ==
    [ disk |-> {}, made |-> {}, removed |-> {}, failed |-> {}, vanished |-> {},
      next |-> 1, baseOk |-> TRUE, subOk |-> TRUE ]

ReapersUnchanged ==
    UNCHANGED <<exists, sock, mtime, contents, procs, singleton, legacy, rmFailed, envChanged>>

\* A snapshot that takes every staged directory of the namespace.
TempDirsSnapshot_AllStaged(cf) == stage.disk

\* temp_dirs = list(self._temp_extension_dirs), config.py:261
TempDirsSnapshot(cf) == cf.temp_extension_dirs

\* The call starts with the removal loop of cleanup_extensions.
EnterCleanup(cf, op) ==
    [cf EXCEPT !.pc = "cleanup", !.op = op, !.ops = @ + 1, !.result = "running",
               !.temp_dirs = TempDirsSnapshot(cf), !.todo = TempDirsSnapshot(cf),
               !.attempted = {}, !.i = 1, !.prepared = <<>>, !.tf = <<>>]

\* A prepare that keeps what the previous run staged.
PrepareEntry_NoTeardown(cf) ==
    [cf EXCEPT !.pc = "stage", !.op = "prepare", !.ops = @ + 1, !.result = "running",
               !.i = 1, !.prepared = <<>>, !.tf = <<>>]

\* _prepare_extensions first calls self.cleanup_extensions(), config.py:234
PrepareEntry(cf) == EnterCleanup(cf, "prepare")

\* A loop that lets the removal error out.
AfterRemoval_ErrorPropagates(cf, d, outcome) ==
    IF outcome = "removed"
    THEN [cf EXCEPT !.todo = @ \ {d}, !.attempted = @ \cup {d}]
    ELSE [cf EXCEPT !.pc = "idle", !.result = "raised", !.attempted = @ \cup {d}]

\* config.py:262-268: FileNotFoundError is passed, any other exception is
\* logged; the loop goes on.
AfterRemoval(cf, d, outcome) ==
    [cf EXCEPT !.todo = @ \ {d}, !.attempted = @ \cup {d}]

\* Tracking that is registered before the archive is opened.
TrackedOnFailure_AddedBeforeExtract(cf) == cf.temp_extension_dirs \cup {cf.tf}

\* config.py:247-251: the add() comes after the try, a failed extraction
\* never reaches it.
TrackedOnFailure(cf) == cf.temp_extension_dirs

\* A cleanup that keeps the prepared list.
ExtensionsAfterCleanup_Kept(cf) == cf.extensions

\* config.py:271-273: self._extensions = []
ExtensionsAfterCleanup(cf) == <<>>

\* self.cleanup_extensions() called by the session at its end.
CleanupBegin(c) ==
    /\ config[c].pc = "idle"
    /\ config[c].ops < MaxOps
    /\ config' = [config EXCEPT ![c] = EnterCleanup(@, "cleanup")]
    /\ UNCHANGED stage
    /\ ReapersUnchanged

\* self._prepare_extensions() called by the session at its start.
PrepareBegin(c) ==
    /\ config[c].pc = "idle"
    /\ config[c].ops < MaxOps
    /\ config' = [config EXCEPT ![c] = PrepareEntry(@)]
    /\ UNCHANGED stage
    /\ ReapersUnchanged

\* One iteration of "for d in temp_dirs": shutil.rmtree(d, ignore_errors=False).
CleanupRemove(c) ==
    /\ config[c].pc = "cleanup"
    /\ \E d \in config[c].todo :
         \/ /\ d \in stage.disk
            /\ stage' = [stage EXCEPT !.disk = @ \ {d},
                                      !.removed = @ \cup {[dir |-> d, by |-> c]}]
            /\ config' = [config EXCEPT ![c] = AfterRemoval(@, d, "removed")]
         \/ /\ d \in stage.disk
            /\ stage' = [stage EXCEPT !.failed = @ \cup {d}]
            /\ config' = [config EXCEPT ![c] = AfterRemoval(@, d, "error")]
         \/ /\ d \notin stage.disk
            /\ UNCHANGED stage
            /\ config' = [config EXCEPT ![c] = AfterRemoval(@, d, "enoent")]
    /\ ReapersUnchanged

\* config.py:269-273: the tracking is cleared and the prepared list dropped;
\* _prepare_extensions goes on to its own loop.
CleanupFinish(c) ==
    /\ config[c].pc = "cleanup"
    /\ config[c].todo = {}
    /\ config' = [config EXCEPT ![c] =
                    [@ EXCEPT !.temp_extension_dirs = {},
                              !.extensions = ExtensionsAfterCleanup(config[c]),
                              !.pc = IF config[c].op = "prepare" THEN "stage" ELSE "idle",
                              !.result = IF config[c].op = "prepare" THEN "running" ELSE "returned"]]
    /\ UNCHANGED stage
    /\ ReapersUnchanged

\* One iteration of "for src in self._extension_sources" up to the archive:
\* a file gets a fresh temp directory, anything else is taken as it is.
StageNext(c) ==
    LET cf == config[c]
        src == cf.extension_sources[cf.i]
        tf == mkdtemp(nodriver_temp_dir("extensions", stage.baseOk, stage.subOk), stage.next)
    IN
    /\ cf.pc = "stage"
    /\ cf.i <= Len(cf.extension_sources)
    /\ \/ /\ src_is_file(src)
          /\ stage' = [stage EXCEPT !.disk = @ \cup {tf},
                                    !.made = @ \cup {[dir |-> tf, by |-> c]},
                                    !.next = @ + 1]
          /\ config' = [config EXCEPT ![c] = [@ EXCEPT !.pc = "extract", !.tf = tf]]
       \/ /\ src_is_file(src)
          /\ UNCHANGED stage
          /\ config' = [config EXCEPT ![c] = [@ EXCEPT !.pc = "idle", !.result = "raised"]]
       \/ /\ ~src_is_file(src)
          /\ UNCHANGED stage
          /\ config' = [config EXCEPT ![c] =
                          [@ EXCEPT !.prepared = Append(@, Passthrough(src)), !.i = @ + 1]]
    /\ ReapersUnchanged

\* config.py:244-252: the archive is extracted and the directory tracked, or
\* the directory is removed as far as it can be and the error raised again.
StageExtract(c) ==
    LET cf == config[c]
        src == cf.extension_sources[cf.i]
    IN
    /\ cf.pc = "extract"
    /\ \E o \in ExtractOutcomes(src) :
         \/ /\ o = "extracted"
            /\ UNCHANGED stage
            /\ config' = [config EXCEPT ![c] =
                            [@ EXCEPT !.temp_extension_dirs = @ \cup {cf.tf},
                                      !.prepared = Append(@, cf.tf),
                                      !.i = @ + 1, !.pc = "stage"]]
         \/ /\ o = "failed"
            /\ \/ stage' = [stage EXCEPT !.disk = @ \ {cf.tf},
                                         !.removed = IF cf.tf \in stage.disk
                                                     THEN @ \cup {[dir |-> cf.tf, by |-> c]}
                                                     ELSE @]
               \/ /\ cf.tf \in stage.disk
                  /\ stage' = [stage EXCEPT !.failed = @ \cup {cf.tf}]
            /\ config' = [config EXCEPT ![c] =
                            [@ EXCEPT !.temp_extension_dirs = TrackedOnFailure(cf),
                                      !.pc = "idle", !.result = "raised"]]
    /\ ReapersUnchanged

\* config.py:256-257: self._extensions = prepared; return prepared.
StageFinish(c) ==
    LET cf == config[c] IN
    /\ cf.pc = "stage"
    /\ cf.i > Len(cf.extension_sources)
    /\ config' = [config EXCEPT ![c] =
                    [@ EXCEPT !.extensions = cf.prepared, !.ret = cf.prepared,
                              !.pc = "idle", !.result = "returned"]]
    /\ UNCHANGED stage
    /\ ReapersUnchanged

\* Something else of the host (a temp cleaner, the user) removes a staged
\* directory.
StagedDirVanishes(d) ==
    /\ d \in stage.disk
    /\ stage' = [stage EXCEPT !.disk = @ \ {d}, !.vanished = @ \cup {d}]
    /\ UNCHANGED config
    /\ ReapersUnchanged

\* Config.__init__ without user_data_dir, config.py:109-111: the profile
\* directory is allocated by temp_profile_dir(), or mkdtemp raises and no
\* Config comes to be.
TempProfileDir(c) ==
    LET p == temp_profile_dir(stage.baseOk, stage.subOk, stage.next) IN
    /\ config[c].pc = "new"
    /\ \/ /\ config' = [config EXCEPT ![c] =
                            [@ EXCEPT !.profile = p, !.user_data_dir = ProfilePath(p),
                                      !.pc = "idle"]]
          /\ stage' = [stage EXCEPT !.next = @ + 1]
       \/ /\ config' = [config EXCEPT ![c] = [@ EXCEPT !.pc = "failed", !.result = "raised"]]
          /\ UNCHANGED stage
    /\ ReapersUnchanged

\* What a user points add_extension at.
ExtChoices ==
    {NestedSource, WrappedSource, SiblingSource, BareSource, ZipSource, MissingSource}

\* Config.add_extension, config.py:200-224
AddExtension(c, path) ==
    /\ config[c].pc = "idle"
    /\ config[c].ext_adds < MaxExt
    /\ IF ~path_exists(path)
       THEN config' = [config EXCEPT ![c] =
                         [@ EXCEPT !.ext_adds = @ + 1, !.lastExt = path, !.lastMatches = <<>>,
                                   !.extResult = "raised"]]
       ELSE IF path_is_dir(path)
       THEN \E items \in rglob(path) :
              config' = [config EXCEPT ![c] =
                           [@ EXCEPT !.ext_adds = @ + 1, !.lastExt = path,
                                     !.lastMatches = items, !.extResult = "returned",
                                     !.extension_sources = Append(@, NormalizeOver(path, items))]]
       ELSE config' = [config EXCEPT ![c] =
                         [@ EXCEPT !.ext_adds = @ + 1, !.lastExt = path, !.lastMatches = <<>>,
                                   !.extResult = "returned",
                                   !.extension_sources = Append(@, path)]]
    /\ UNCHANGED stage
    /\ ReapersUnchanged

\* What a user tries to pass to add_argument.
ArgChoices == {CustomFlag, HeadlessNew, NoSandbox, LangUpper, UserDataDirUnderscore}

\* Config.add_argument, config.py:313-329
AddArgument(c, arg) ==
    /\ config[c].pc = "idle"
    /\ config[c].adds < MaxArgs
    /\ config' = [config EXCEPT ![c] =
                    IF IsReserved(arg)
                    THEN [@ EXCEPT !.adds = @ + 1, !.lastArg = arg, !.addResult = "raised"]
                    ELSE [@ EXCEPT !.adds = @ + 1, !.lastArg = arg, !.addResult = "returned",
                                   !.browser_args = Append(@, arg),
                                   !.added = @ \cup {arg}]]
    /\ UNCHANGED stage
    /\ ReapersUnchanged

\* Config.__call__ called and returned.
Call(c) ==
    LET cf == config[c]
        args == Config_call(cf)
        after == [cf EXCEPT !.default_browser_args = DefaultsAfterCall(cf, args)]
    IN
    /\ cf.pc = "idle"
    /\ config' = [config EXCEPT ![c] =
                    [after EXCEPT !.tick = ~@, !.called = TRUE, !.out = args,
                                  !.repeat = cf.called /\ cf.seen = ArgState(cf),
                                  !.seen = ArgState(after)]]
    /\ UNCHANGED stage
    /\ ReapersUnchanged

(***************************************************************************)
(* Initial states and specifications.                                      *)
(***************************************************************************)
\* Outside the directories a specification varies, the temp root is fixed:
\* stale lock sockets everywhere, old profile-shaped legacy directories.
InitWorld ==
    /\ exists = [e \in Entries |-> TRUE]
    /\ rmFailed = {}
    /\ envChanged = FALSE
    /\ config = [c \in Configs |-> ConfigNew]
    /\ stage = StageEmpty

\* One pass of the singleton reaper against a browser that may act at any
\* point; the lock sockets start in any state.
InitSingleton ==
    /\ InitWorld
    /\ \E v \in [VendorDirs -> SockStates] :
         sock = [e \in Entries |-> IF e \in VendorDirs THEN v[e] ELSE "refusing"]
    /\ mtime = [e \in Entries |-> 0]
    /\ contents = [e \in Entries |-> {DefaultDir}]
    /\ procs = {}
    /\ singleton = [p \in Passes |-> IF p = 1 THEN SingletonIdle ELSE [SingletonIdle EXCEPT !.pc = "off"]]
    /\ legacy = [p \in Passes |-> [LegacyIdle EXCEPT !.pc = "off"]]

NextSingleton ==
    \/ \E p \in Passes : SingletonStart(p)
    \/ \E p \in Passes : SingletonScan(p)
    \/ \E p \in Passes : SingletonStat(p)
    \/ \E p \in Passes : SingletonConnect(p)
    \/ \E p \in Passes : SingletonSleep(p)
    \/ \E p \in Passes : SingletonRemove(p)
    \/ \E e \in Entries : SocketChange(e)

SpecSingleton == InitSingleton /\ [][NextSingleton]_vars

\* One pass of the legacy reaper while browsers start and exit; the first
\* legacy directory has any age and any members.
InitLegacy ==
    /\ InitWorld
    /\ sock = [e \in Entries |-> "refusing"]
    /\ \E t \in 0..MaxTime : mtime = [e \in Entries |-> IF e = 3 THEN t ELSE 0]
    /\ \E c \in ContentChoices : contents = [e \in Entries |-> IF e = 3 THEN c ELSE {DefaultDir}]
    /\ procs \in { q \in SUBSET CmdLines : Cardinality(q) <= MaxProcs }
    /\ singleton = [p \in Passes |-> [SingletonIdle EXCEPT !.pc = "off"]]
    /\ legacy = [p \in Passes |-> IF p = 1 THEN LegacyIdle ELSE [LegacyIdle EXCEPT !.pc = "off"]]

NextLegacy ==
    \/ \E p \in Passes : LegacyStart(p)
    \/ \E p \in Passes : LegacyList(p)
    \/ \E p \in Passes : LegacyExamine(p)
    \/ \E p \in Passes : LegacyRemove(p)
    \/ \E c \in CmdLines : ProcStart(c)
    \/ \E c \in CmdLines : ProcExit(c)

SpecLegacy == InitLegacy /\ [][NextLegacy]_vars

\* Two passes of the same reaper start together over the same temp root,
\* which nothing else changes: two singleton passes over lock sockets that
\* are absent, stale or live, or two legacy passes over old directories, the
\* first one empty or holding a foreign file.
InitConcurrent ==
    /\ InitWorld
    /\ procs = {}
    /\ mtime = [e \in Entries |-> 0]
    /\ \/ /\ \E v \in [VendorDirs -> {"absent", "refusing", "listening"}] :
               sock = [e \in Entries |-> IF e \in VendorDirs THEN v[e] ELSE "refusing"]
          /\ contents = [e \in Entries |-> {DefaultDir}]
          /\ singleton = [p \in Passes |-> SingletonIdle]
          /\ legacy = [p \in Passes |-> [LegacyIdle EXCEPT !.pc = "off"]]
       \/ /\ sock = [e \in Entries |-> "refusing"]
          /\ \E c \in {{}, {OtherFile}} : contents = [e \in Entries |-> IF e = 3 THEN c ELSE {DefaultDir}]
          /\ singleton = [p \in Passes |-> [SingletonIdle EXCEPT !.pc = "off"]]
          /\ legacy = [p \in Passes |-> LegacyIdle]

NextConcurrent ==
    \/ \E p \in Passes : SingletonStart(p)
    \/ \E p \in Passes : SingletonScan(p)
    \/ \E p \in Passes : SingletonStat(p)
    \/ \E p \in Passes : SingletonConnect(p)
    \/ \E p \in Passes : SingletonSleep(p)
    \/ \E p \in Passes : SingletonRemove(p)
    \/ \E p \in Passes : LegacyStart(p)
    \/ \E p \in Passes : LegacyList(p)
    \/ \E p \in Passes : LegacyExamine(p)
    \/ \E p \in Passes : LegacyRemove(p)

SpecConcurrent == InitConcurrent /\ [][NextConcurrent]_vars

\* The temp root with no reaper pass running.
InitReapersOff ==
    /\ exists = [e \in Entries |-> TRUE]
    /\ rmFailed = {}
    /\ envChanged = FALSE
    /\ sock = [e \in Entries |-> "refusing"]
    /\ mtime = [e \in Entries |-> 0]
    /\ contents = [e \in Entries |-> {DefaultDir}]
    /\ procs = {}
    /\ singleton = [p \in Passes |-> [SingletonIdle EXCEPT !.pc = "off"]]
    /\ legacy = [p \in Passes |-> [LegacyIdle EXCEPT !.pc = "off"]]

\* The sources the sessions have added to their Config objects, in order.
SourceLists ==
    { <<ZipSource>>, <<DirSource, ZipSource>>, <<ZipSource, CorruptSource>>, <<ZipSource, ZipSource>> }

\* One session stages and tears down the extensions of its Config, in a
\* temp namespace whose directories can or cannot be made.
InitStaging ==
    /\ InitReapersOff
    /\ \E l \in SourceLists :
         config = [c \in Configs |->
                     IF c = 1 THEN [ConfigNew EXCEPT !.extension_sources = l]
                              ELSE [ConfigNew EXCEPT !.pc = "off"]]
    /\ \E b \in BOOLEAN, u \in BOOLEAN :
         stage = [StageEmpty EXCEPT !.baseOk = b, !.subOk = u]

NextStaging ==
    \/ \E c \in Configs : PrepareBegin(c)
    \/ \E c \in Configs : CleanupBegin(c)
    \/ \E c \in Configs : CleanupRemove(c)
    \/ \E c \in Configs : CleanupFinish(c)
    \/ \E c \in Configs : StageNext(c)
    \/ \E c \in Configs : StageExtract(c)
    \/ \E c \in Configs : StageFinish(c)
    \/ \E d \in stage.disk : StagedDirVanishes(d)

SpecStaging == InitStaging /\ [][NextStaging]_vars

\* Two sessions, each with its own Config holding one packaged extension,
\* run their calls concurrently; both fall back to the same parent
\* directory, or both get the extensions directory.
InitSessions ==
    /\ InitReapersOff
    /\ config = [c \in Configs |-> [ConfigNew EXCEPT !.extension_sources = <<ZipSource>>]]
    /\ \E b \in BOOLEAN :
         stage = [StageEmpty EXCEPT !.baseOk = b, !.subOk = b]

NextSessions ==
    \/ \E c \in Configs : PrepareBegin(c)
    \/ \E c \in Configs : CleanupBegin(c)
    \/ \E c \in Configs : CleanupRemove(c)
    \/ \E c \in Configs : CleanupFinish(c)
    \/ \E c \in Configs : StageNext(c)
    \/ \E c \in Configs : StageExtract(c)
    \/ \E c \in Configs : StageFinish(c)

SpecSessions == InitSessions /\ [][NextSessions]_vars

\* The list the leak test gives the constructor.
LeakTestArgs == <<DisableGpu, <<"--disable-dev-shm-usage">>, NoFirstRun>>

\* One session: a Config constructed either with its defaults or headless,
\* without sandbox, in expert mode against a remote endpoint; with no flags,
\* the flags of the leak test, a flag about extensions of the user's own, or
\* a headless flag of the user's own (__init__ takes browser_args as given);
\* flags are added, extensions prepared and torn down, and the argument list
\* asked for at any point between two calls.
InitArgs ==
    /\ InitReapersOff
    /\ stage = StageEmpty
    /\ \E h \in BOOLEAN,
          ba \in {<<>>, LeakTestArgs, <<UnsafeDebugging>>, <<UserLoadExtension>>, <<HeadlessNew>>},
          l \in {<<DirSource, ZipSource>>} :
         config = [c \in Configs |->
                     IF c = 1
                     THEN [ConfigNew EXCEPT !.headless = h, !.sandbox = ~h, !.expert = h,
                                            !.host = IF h THEN <<"127.0.0.1">> ELSE <<>>,
                                            !.port = IF h THEN 9222 ELSE 0,
                                            !.browser_args = ba,
                                            !.extension_sources = l]
                     ELSE [ConfigNew EXCEPT !.pc = "off"]]

NextArgs ==
    \/ \E c \in Configs : \E arg \in ArgChoices : AddArgument(c, arg)
    \/ \E c \in Configs : Call(c)
    \/ \E c \in Configs : PrepareBegin(c)
    \/ \E c \in Configs : CleanupBegin(c)
    \/ \E c \in Configs : CleanupRemove(c)
    \/ \E c \in Configs : CleanupFinish(c)
    \/ \E c \in Configs : StageNext(c)
    \/ \E c \in Configs : StageExtract(c)
    \/ \E c \in Configs : StageFinish(c)

SpecArgs == InitArgs /\ [][NextArgs]_vars

\* One session from the construction of its Config on: the profile directory
\* is allocated, then extensions are staged and torn down, in a temp
\* namespace whose root and whose subdirectories can or cannot be made.
InitNamespace ==
    /\ InitReapersOff
    /\ \E l \in {<<ZipSource>>, <<DirSource, ZipSource>>} :
         config = [c \in Configs |->
                     IF c = 1 THEN [ConfigNew EXCEPT !.pc = "new", !.user_data_dir = <<>>,
                                                     !.extension_sources = l]
                              ELSE [ConfigNew EXCEPT !.pc = "off"]]
    /\ \E b \in BOOLEAN, u \in BOOLEAN :
         stage = [StageEmpty EXCEPT !.baseOk = b, !.subOk = u]

NextNamespace ==
    \/ \E c \in Configs : TempProfileDir(c)
    \/ \E c \in Configs : PrepareBegin(c)
    \/ \E c \in Configs : CleanupBegin(c)
    \/ \E c \in Configs : CleanupRemove(c)
    \/ \E c \in Configs : CleanupFinish(c)
    \/ \E c \in Configs : StageNext(c)
    \/ \E c \in Configs : StageExtract(c)
    \/ \E c \in Configs : StageFinish(c)
    \/ \E d \in stage.disk : StagedDirVanishes(d)

SpecNamespace == InitNamespace /\ [][NextNamespace]_vars

\* One session on a Config constructed without extensions: extensions are
\* added, prepared and torn down in any order.
InitExtensions ==
    /\ InitReapersOff
    /\ stage = StageEmpty
    /\ config = [c \in Configs |-> IF c = 1 THEN ConfigNew ELSE [ConfigNew EXCEPT !.pc = "off"]]

NextExtensions ==
    \/ \E c \in Configs : \E path \in ExtChoices : AddExtension(c, path)
    \/ \E c \in Configs : PrepareBegin(c)
    \/ \E c \in Configs : CleanupBegin(c)
    \/ \E c \in Configs : CleanupRemove(c)
    \/ \E c \in Configs : CleanupFinish(c)
    \/ \E c \in Configs : StageNext(c)
    \/ \E c \in Configs : StageExtract(c)
    \/ \E c \in Configs : StageFinish(c)

SpecExtensions == InitExtensions /\ [][NextExtensions]_vars

(***************************************************************************)
(* Properties of cleanup_chromium_singleton_dirs (SpecSingleton).          *)
(***************************************************************************)
InactiveOutcomes == {"stat_enoent", "connect_enoent", "econnrefused"}

\* Pass p takes the step that removes entry e.
SingletonRemoves(p, e) ==
    /\ singleton[p].pc = "remove"
    /\ singleton[p].d = e
    /\ singleton'[p] # singleton[p]

\* Entry e disappears from the temp root in this step.
Deleted(e) == exists[e] /\ ~exists'[e]

\* The lazy listing of pass p has moved past entry e.
Processed(p, e) == singleton[p].pc \notin {"idle", "off"} /\ singleton[p].d > e

\* C1: a directory is deleted only by a pass that has made max(1, retries)
\* probes of its SingletonSocket, every one of them with an inactive outcome
\* (stat not-found, connect ENOENT or ECONNREFUSED).
C1_DeletedOnlyAfterAllProbesInactive ==
    [][\A e \in Entries : Deleted(e) =>
         \E p \in Passes :
            /\ SingletonRemoves(p, e)
            /\ Len(singleton[p].probes) = Max(1, singleton[p].retries)
            /\ \A n \in DOMAIN singleton[p].probes : singleton[p].probes[n] \in InactiveOutcomes]_vars

\* A pass with retries = MaxRetries has just deleted a directory after that
\* many inactive probes.
C1_Witness ==
    \E p \in Passes :
        /\ singleton[p].pc = "scan"
        /\ singleton[p].retries = MaxRetries
        /\ singleton[p].d > 1
        /\ ~exists[singleton[p].d - 1]
        /\ Len(singleton[p].probes) = MaxRetries

\* C2 as stated: after a pass over unchanging sockets, every vendor lock
\* directory whose socket is inactive (absent or refusing) is gone and every
\* one whose socket is active (connects, times out, is no socket) is there.
C2_InactiveRemovedActiveRetained ==
    \A p \in Passes : \A e \in VendorDirs :
        (singleton[p].pc \in {"done", "raised"} /\ ~envChanged) =>
            /\ sock[e] \in {"absent", "refusing"} => ~exists[e]
            /\ sock[e] \in {"listening", "hung", "notsock"} => exists[e]

\* C2 amended: while the sockets do not change, a vendor lock directory is
\* gone only if its SingletonSocket is a socket file refusing connections and
\* a pass has enumerated it; every such directory a pass has enumerated is
\* gone unless a forced removal of it failed silently; a directory whose
\* socket is absent when enumerated, or active, is retained.
C2_RefusingRemovedOthersRetained ==
    ~envChanged =>
        \A e \in VendorDirs :
            /\ ~exists[e] => (sock[e] = "refusing" /\ \E p \in Passes : Processed(p, e))
            /\ \A p \in Passes :
                 (Processed(p, e) /\ sock[e] = "refusing") => (~exists[e] \/ e \in rmFailed)

\* A finished pass has removed the first vendor directory (refusing) and kept
\* the second, whose socket is active.
C2_Witness ==
    \E p \in Passes :
        /\ singleton[p].pc = "done"
        /\ ~envChanged
        /\ ~exists[1] /\ sock[1] = "refusing"
        /\ exists[2] /\ sock[2] \in {"listening", "hung", "notsock"}

\* C4 as stated: no directory is deleted while its socket accepts
\* connections.
C4_NeverDeletedWhileListening ==
    [][\A e \in Entries : Deleted(e) => sock[e] # "listening"]_vars

\* C4 amended: a directory is deleted while its socket accepts connections
\* only if the socket's state changed after the pass's last probe of it; a
\* socket that accepted connections at a probe is never deleted by that pass.
C4_ListeningOnlyIfChangedAfterLastProbe ==
    [][\A e \in Entries : Deleted(e) =>
         \E p \in Passes :
            /\ SingletonRemoves(p, e)
            /\ "connected" \notin { singleton[p].probes[n] : n \in DOMAIN singleton[p].probes }
            /\ sock[e] = "listening" => singleton[p].fresh]_vars

\* A directory has been deleted while a browser that started after the last
\* probe was accepting connections on its socket.
C4_Witness ==
    \E p \in Passes :
        /\ singleton[p].pc = "scan"
        /\ singleton[p].d > 1
        /\ ~exists[singleton[p].d - 1]
        /\ sock[singleton[p].d - 1] = "listening"
        /\ singleton[p].probes # <<>>

\* C8: no error leaves the pass, and a pass that has ended has been through
\* every entry of the listing.
C8_NoFailureStopsThePass ==
    \A p \in Passes :
        /\ singleton[p].pc # "raised"
        /\ singleton[p].pc = "done" => singleton[p].d > Len(TempRoot)

(***************************************************************************)
(* Properties of cleanup_legacy_uc_profile_dirs (SpecLegacy).              *)
(***************************************************************************)
\* Pass p takes the step that removes entry e.
LegacyRemoves(p, e) ==
    /\ legacy[p].pc = "remove"
    /\ legacy[p].entries[legacy[p].k] = e
    /\ legacy'[p] # legacy[p]

\* Pass p has examined entry e of its listing.
Examined(p, e) ==
    /\ legacy[p].pc \in {"examine", "remove", "done"}
    /\ \E n \in 1..Len(legacy[p].entries) : legacy[p].entries[n] = e /\ n < legacy[p].k

\* Entry e passes the age gate of pass p and is empty.
OldAndEmpty(p, e) == legacy[p].now - mtime[e] >= legacy[p].min_age /\ contents[e] = {}

\* C3 as stated: no uc_ directory is deleted while a live process
\* references it.
C3_NeverDeletedWhileReferenced ==
    [][\A e \in Entries : Deleted(e) => ~\E c \in procs : References(c, e)]_vars

\* C3 amended: a pass never deletes a uc_ directory that a process listed in
\* the pass's own process-table snapshot references; a process that starts
\* after the snapshot is not seen.
C3_NeverDeletedWhenReferencedInSnapshot ==
    [][\A e \in Entries : Deleted(e) =>
         \E p \in Passes :
            /\ LegacyRemoves(p, e)
            /\ \A c \in CmdLines : Line(c) \in legacy[p].ps_out => ~References(c, e)]_vars

\* A directory has been deleted although a process that started after the
\* snapshot was using it.
C3_Witness ==
    \E p \in Passes :
        /\ legacy[p].ps_out # {}
        /\ ~exists[3]
        /\ \E c \in procs \ legacy[p].atStart : References(c, 3)

\* C5 as stated: a uc_ directory past the age threshold that a process alive
\* during the whole pass references, by its literal or canonical path with
\* either separator, is retained.
C5_ReferencedIsRetained ==
    [][\A e \in LegacyDirs : Deleted(e) =>
         \A p \in Passes :
            LegacyRemoves(p, e) => ~\E c \in procs \cap legacy[p].atStart : References(c, e)]_vars

\* C5 amended: the same whenever the pass's process-table snapshot is not
\* empty; with an empty snapshot (not POSIX, or ps could not be run) the pass
\* decides on age and shape alone.
C5_ReferencedIsRetainedWhenSnapshotTaken ==
    [][\A e \in LegacyDirs : Deleted(e) =>
         \A p \in Passes :
            (LegacyRemoves(p, e) /\ legacy[p].ps_out # {}) =>
                ~\E c \in procs \cap legacy[p].atStart : References(c, e)]_vars

\* A finished pass has kept an old, empty uc_ directory because a process
\* alive since the snapshot references it with the space separator and the
\* canonical path.
C5_Witness ==
    \E p \in Passes :
        /\ legacy[p].pc = "done"
        /\ Examined(p, 3)
        /\ ~legacy[p].caught
        /\ exists[3]
        /\ OldAndEmpty(p, 3)
        /\ [sep |-> " ", path |-> RealPath(3)] \in procs \cap legacy[p].atStart

\* C6 as stated: a uc_ directory younger than min_age_seconds is never
\* deleted, whatever the outcome of reading its modification time.
C6_YoungIsNeverDeleted ==
    [][\A e \in Entries : Deleted(e) =>
         \A p \in Passes :
            LegacyRemoves(p, e) => legacy[p].now - mtime[e] >= legacy[p].min_age]_vars

\* C6 amended: a uc_ directory younger than min_age_seconds is never deleted
\* by a pass that could read its modification time, whatever its shape; when
\* the stat fails the pass takes the directory to be old enough.
C6_YoungIsNeverDeletedWhenStatSucceeds ==
    [][\A e \in Entries : Deleted(e) =>
         \A p \in Passes :
            (LegacyRemoves(p, e) /\ legacy[p].statOk) =>
                legacy[p].now - mtime[e] >= legacy[p].min_age]_vars

\* A finished pass has examined and kept a young, empty, unreferenced uc_
\* directory.
C6_Witness ==
    \E p \in Passes :
        /\ legacy[p].pc = "done"
        /\ Examined(p, 3)
        /\ ~legacy[p].caught
        /\ exists[3]
        /\ contents[3] = {}
        /\ legacy[p].now - mtime[3] < legacy[p].min_age
        /\ legacy[p].atStart = {} /\ procs = {}

\* C7: a uc_ directory that is neither empty nor profile-shaped (a Local
\* State file, a Default directory or a Last Version file) is never deleted,
\* also when its members cannot be read.
C7_OnlyEmptyOrProfileShapedDeleted ==
    [][\A e \in Entries : Deleted(e) =>
         /\ \E p \in Passes : LegacyRemoves(p, e)
         /\ contents[e] = {} \/ ProfileShaped(contents[e])]_vars

\* A finished pass has examined and kept an old, unreferenced uc_ directory
\* that holds a file named Default and a directory named Local State.
C7_Witness ==
    \E p \in Passes :
        /\ legacy[p].pc = "done"
        /\ Examined(p, 3)
        /\ ~legacy[p].caught
        /\ exists[3]
        /\ contents[3] = {DefaultFile, LocalStateDir}
        /\ legacy[p].now - mtime[3] >= legacy[p].min_age
        /\ legacy[p].atStart = {} /\ procs = {}

\* C9: no error leaves the pass, and a pass that has ended after listing the
\* temp root has been through every entry it listed.
C9_EveryEntryInItsOwnBoundary ==
    \A p \in Passes :
        /\ legacy[p].pc # "raised"
        /\ legacy[p].pc = "done" => legacy[p].k > Len(legacy[p].entries)

\* The body raised for the first uc_ directory, which is still there, and
\* the pass went on to delete the second one.
C9_Witness ==
    \E p \in Passes :
        /\ legacy[p].pc = "done"
        /\ legacy[p].caught
        /\ exists[3] /\ 3 \notin rmFailed
        /\ ~exists[4]

(***************************************************************************)
(* Two uncoordinated passes (SpecConcurrent).                              *)
(***************************************************************************)
AllEnded ==
    \A p \in Passes :
        /\ singleton[p].pc \in {"off", "done", "raised"}
        /\ legacy[p].pc \in {"off", "done", "raised"}

\* C10: when two concurrent passes have ended, neither has raised and what
\* remains is what one pass alone leaves: of the vendor lock directories,
\* exactly those whose socket does not refuse connections (or whose forced
\* removal failed); of the uc_ directories, every one a pass must keep.
C10_TwoPassesLeaveWhatOnePassLeaves ==
    AllEnded =>
        /\ \A p \in Passes : singleton[p].pc # "raised" /\ legacy[p].pc # "raised"
        /\ (\E p \in Passes : singleton[p].pc # "off") =>
              \A e \in VendorDirs :
                 /\ ~exists[e] => sock[e] = "refusing"
                 /\ sock[e] = "refusing" => (~exists[e] \/ e \in rmFailed)
        /\ \A e \in LegacyDirs : ~exists[e] => (contents[e] = {} \/ ProfileShaped(contents[e]))

(***************************************************************************)
(* Properties of Config's extension staging (SpecStaging, SpecSessions).   *)
(***************************************************************************)
\* The staged directories Config c has made.
StagedBy(c) == { m.dir : m \in { x \in stage.made : x.by = c } }

\* Those of them that are still on disk.
OnDiskOf(c) == StagedBy(c) \cap stage.disk

\* The number of packaged sources of Config c.
PackagedSources(c) ==
    Cardinality({ n \in DOMAIN config[c].extension_sources :
                    src_is_file(config[c].extension_sources[n]) })

\* No call is running on Config c.
AtRest(c) == config[c].pc = "idle"

\* C11 as stated: between calls, the staged directories of a Config that
\* are on disk are exactly its tracked directories that are on disk, they
\* are no more than its packaged sources, and after cleanup there is none.
C11_OnDiskIsTracked ==
    \A c \in Configs : AtRest(c) =>
        /\ OnDiskOf(c) = config[c].temp_extension_dirs \cap stage.disk
        /\ Cardinality(OnDiskOf(c)) <= PackagedSources(c)
        /\ (config[c].op = "cleanup" /\ config[c].result = "returned") => OnDiskOf(c) = {}

\* C11 amended: the same for the staged directories on which no removal has
\* failed; a directory whose removal failed stays on disk and is tracked no
\* longer.
C11_OnDiskIsTrackedUnlessRemovalFailed ==
    \A c \in Configs : AtRest(c) =>
        /\ OnDiskOf(c) \ stage.failed \subseteq config[c].temp_extension_dirs
        /\ config[c].temp_extension_dirs \cap stage.disk \subseteq OnDiskOf(c)
        /\ Cardinality(OnDiskOf(c) \ stage.failed) <= PackagedSources(c)
        /\ (config[c].op = "cleanup" /\ config[c].result = "returned") =>
              OnDiskOf(c) \subseteq stage.failed

\* A second prepare has returned: the directory of the first is gone, the
\* directory of the second is on disk and tracked.
C11_Witness ==
    \E c \in Configs :
        /\ AtRest(c)
        /\ config[c].ops = 2 /\ config[c].op = "prepare" /\ config[c].result = "returned"
        /\ Cardinality(StagedBy(c)) = 2
        /\ Cardinality(OnDiskOf(c)) = 1
        /\ OnDiskOf(c) = config[c].temp_extension_dirs
        /\ stage.failed = {} /\ stage.vanished = {}

\* The extraction of the archive fails in this step of Config c.
ExtractionFails(c) ==
    /\ config[c].pc = "extract"
    /\ config'[c] # config[c]
    /\ config'[c].prepared = config[c].prepared

\* The directories staged so far by the call running on Config c.
StagedInCall(c) ==
    { config[c].prepared[n] : n \in DOMAIN config[c].prepared } \cap StagedBy(c)

\* C12 as stated: when an extraction fails, the temp directory just made is
\* gone and untracked, the error reaches the caller, and the directories
\* staged earlier in the call stay tracked.
C12_FailedExtractionLeavesNothing ==
    [][\A c \in Configs : ExtractionFails(c) =>
         /\ config[c].tf \notin stage'.disk
         /\ config[c].tf \notin config'[c].temp_extension_dirs
         /\ config'[c].pc = "idle" /\ config'[c].result = "raised"
         /\ StagedInCall(c) \subseteq config'[c].temp_extension_dirs]_vars

\* C12 amended: the removal of the temp directory just made is best effort:
\* the directory is gone unless that removal failed, and it is untracked in
\* either case; the rest as stated.
C12_FailedExtractionLeavesNothingTracked ==
    [][\A c \in Configs : ExtractionFails(c) =>
         /\ config[c].tf \notin stage'.disk \/ config[c].tf \in stage'.failed
         /\ config[c].tf \notin config'[c].temp_extension_dirs
         /\ config'[c].pc = "idle" /\ config'[c].result = "raised"
         /\ config'[c].extensions = config[c].extensions
         /\ StagedInCall(c) \subseteq config'[c].temp_extension_dirs]_vars

\* The second source of a prepare could not be extracted: its temp directory
\* is gone, the call has raised, and the directory staged for the first
\* source is on disk and tracked.
C12_Witness ==
    \E c \in Configs :
        /\ AtRest(c) /\ config[c].result = "raised"
        /\ config[c].i = 2
        /\ config[c].tf # <<>> /\ config[c].tf \notin stage.disk
        /\ config[c].tf \notin config[c].temp_extension_dirs
        /\ StagedInCall(c) # {}
        /\ StagedInCall(c) \subseteq config[c].temp_extension_dirs \cap stage.disk

\* The removal loop of cleanup_extensions on Config c ends in this step.
CleanupEnds(c) == config[c].pc = "cleanup" /\ config'[c].pc # "cleanup"

\* C13: cleanup_extensions never raises; when its loop ends, every directory
\* of its snapshot has had its removal attempt, whatever the earlier attempts
\* did, and the tracked set and the prepared list are empty; called again
\* right after, it changes nothing.
C13_CleanupNeverRaisesAndClears ==
    [][\A c \in Configs :
         /\ CleanupEnds(c) =>
               /\ config'[c].result # "raised"
               /\ config[c].attempted = config[c].temp_dirs
               /\ config'[c].temp_extension_dirs = {}
               /\ config'[c].extensions = <<>>
         /\ (/\ config[c].pc = "cleanup"
             /\ config[c].temp_extension_dirs = {}
             /\ config[c].extensions = <<>>
             /\ config'[c] # config[c]) =>
               /\ stage' = stage
               /\ config'[c].temp_extension_dirs = {}
               /\ config'[c].extensions = <<>>]_vars

\* A cleanup has returned with nothing tracked after one of its two
\* directories was already missing and the removal of the other failed.
C13_Witness ==
    \E c \in Configs :
        /\ AtRest(c)
        /\ config[c].op = "cleanup" /\ config[c].result = "returned"
        /\ config[c].temp_extension_dirs = {}
        /\ config[c].temp_dirs \cap stage.vanished # {}
        /\ config[c].temp_dirs \cap stage.failed # {}
        /\ config[c].attempted = config[c].temp_dirs

\* C14: the tracked sets of two Config objects are disjoint, and every
\* staged directory a Config has removed, in a cleanup or after a failed
\* extraction, is one that this Config made, also when both stage under the
\* same fallback directory.
C14_SessionsNeverTouchEachOther ==
    /\ config[1].temp_extension_dirs \cap config[2].temp_extension_dirs = {}
    /\ \A r \in stage.removed : \A m \in stage.made : m.dir = r.dir => m.by = r.by
    /\ \A c \in Configs : config[c].temp_extension_dirs \subseteq StagedBy(c)

\* Both sessions stage under the system temp dir itself; the first has
\* removed its directory while the directory of the second is on disk and
\* tracked by the second.
C14_Witness ==
    /\ ~stage.baseOk /\ ~stage.subOk
    /\ \E r \in stage.removed : r.by = 1
    /\ config[2].temp_extension_dirs # {}
    /\ config[2].temp_extension_dirs \subseteq stage.disk
    /\ stage.vanished = {}

\* The sources of Config c that are not files.
DirectorySources(c) ==
    { config[c].extension_sources[n] : n \in DOMAIN config[c].extension_sources } \ {ZipSource, CorruptSource}

\* C15: a prepare that returns gives one path per source, in the order of
\* the sources, and at the position of a directory source the path of that
\* source; the path of a directory source is never tracked, never in the
\* snapshot of a cleanup and never the target of a removal.
C15_DirectorySourcesPassThrough ==
    \A c \in Configs :
        /\ (AtRest(c) /\ config[c].op = "prepare" /\ config[c].result = "returned") =>
              /\ Len(config[c].ret) = Len(config[c].extension_sources)
              /\ config[c].extensions = config[c].ret
              /\ \A n \in DOMAIN config[c].extension_sources :
                    config[c].extension_sources[n] \in DirectorySources(c) =>
                        config[c].ret[n] = <<"/", "home", "/", "ext">>
        /\ \A src \in DirectorySources(c) :
              /\ str(src) \notin config[c].temp_extension_dirs \cup config[c].temp_dirs
              /\ str(src) \notin stage.failed \cup { r.dir : r \in stage.removed }

\* After a prepare over a directory source and a packaged one and a cleanup,
\* the prepare had returned the path of the directory first and a staged
\* directory second, and the cleanup has removed the staged directory.
C15_Witness ==
    \E c \in Configs :
        /\ AtRest(c) /\ config[c].op = "cleanup" /\ config[c].result = "returned"
        /\ config[c].extension_sources = <<DirSource, ZipSource>>
        /\ Len(config[c].ret) = 2
        /\ config[c].ret[1] = <<"/", "home", "/", "ext">>
        /\ config[c].ret[2] \in StagedBy(c) \ stage.disk
        /\ \E r \in stage.removed : r.dir = config[c].ret[2]

(***************************************************************************)
(* Properties of Config's argument list (SpecArgs).                        *)
(***************************************************************************)
\* Config.__call__ returns on Config c in this step.
Calls(c) == config'[c].tick # config[c].tick

NoDup(flags) == \A m, n \in DOMAIN flags : m # n => flags[m] # flags[n]

\* C16: no argument list that Config.__call__ has returned holds a flag
\* twice.
C16_NoFlagTwice ==
    \A c \in Configs : config[c].called => NoDup(config[c].out)

\* C17: Config.__call__ leaves every field of the Config as it was, and a
\* call made on the state the previous call left returns the list the
\* previous call returned.
C17_CallChangesNothingAndRepeats ==
    [][\A c \in Configs : Calls(c) =>
         /\ ArgState(config'[c]) = ArgState(config[c])
         /\ (config[c].called /\ config[c].seen = ArgState(config[c])) =>
               config'[c].out = config[c].out]_vars

\* A second call in a row has returned, with a flag added and extensions
\* prepared before the first.
C17_Witness ==
    \E c \in Configs :
        /\ config[c].repeat
        /\ config[c].extensions # <<>>
        /\ CustomFlag \in config[c].added
        /\ InList(CustomFlag, config[c].out)

\* The derived flags in their fixed order: --user-data-dir, the session
\* recovery suppression, --disable-features, the extension flags, the
\* expert flag.
ExpectedDerived(cf) ==
    LET ext == cf.extensions
        userLoads == \E n \in DOMAIN cf.browser_args : cf.browser_args[n][1] = "--load-extension"
        userUnsafe == \E n \in DOMAIN cf.browser_args :
                         cf.browser_args[n][1] = "--enable-unsafe-extension-debugging"
        joined == IF Len(ext) = 1 THEN ext[1] ELSE ext[1] \o <<",">> \o ext[2]
    IN
    << <<"--user-", "data-dir", "=">> \o cf.user_data_dir,
       <<"--disable-session-crashed-bubble">>,
       IF ext = <<>>
       THEN <<"--disable-features", "=", "IsolateOrigins,site-per-process">>
       ELSE <<"--disable-features", "=", "IsolateOrigins,site-per-process",
              ",DisableLoadExtensionCommandLineSwitch">> >>
    \o (IF ext # <<>> /\ ~userLoads THEN << <<"--load-extension", "=">> \o joined >> ELSE <<>>)
    \o (IF ext # <<>> /\ ~userUnsafe THEN << <<"--enable-unsafe-extension-debugging">> >> ELSE <<>>)
    \o (IF cf.expert THEN << <<"--disable-site-isolation-trials">> >> ELSE <<>>)

\* C18 as stated: the list returned begins with the defaults and the
\* user's flags sorted as one, followed by the derived flags.
C18_SortedMergeThenDerived ==
    [][\A c \in Configs : Calls(c) =>
         IsPrefix(sorted(DefaultBrowserArgs \o config[c].browser_args)
                     \o ExpectedDerived(config[c]),
                  config'[c].out)]_vars

\* C18 amended: the list returned begins with the defaults in the order
\* they are declared, followed by the derived flags, followed by the user's
\* flags that are not yet in the list, in the order they were given.
C18_DefaultsThenDerivedThenUser ==
    [][\A c \in Configs : Calls(c) =>
         LET pre == DefaultBrowserArgs \o ExpectedDerived(config[c])
             usr == SelectSeq(config[c].browser_args, LAMBDA a : ~InList(a, pre))
         IN IsPrefix(pre \o usr, config'[c].out)]_vars

\* A call has returned for a Config in expert mode that was given the flags
\* of the leak test and then a custom flag: the list ends, before the
\* session flags, with the flags of the user that were not in it.
C18_Witness ==
    \E c \in Configs :
        /\ config[c].called /\ config[c].seen = ArgState(config[c])
        /\ config[c].expert
        /\ config[c].browser_args = LeakTestArgs \o <<CustomFlag>>
        /\ config[c].out[1] = <<"--remote-allow-origins=*">>
        /\ InList(DisableGpu, config[c].out) /\ InList(CustomFlag, config[c].out)

\* add_argument has just been called on c.
Adds(c) == config'[c].adds = config[c].adds + 1

\* The lowercase text of arg contains one of the six reserved words.
NamesReserved(arg) ==
    \E n \in DOMAIN arg :
        arg[n] \in {"headless", "data-dir", "data_dir", "no-sandbox", "no_sandbox", "lang", "Lang"}

\* C19: add_argument(arg) raises and leaves the extra flags as they were
\* when the lowercase text of arg contains a reserved word; for any other
\* arg it returns, arg is the last of the extra flags, and arg is in every
\* argument list returned afterwards.
C19_ReservedRejectedOthersKept ==
    [][\A c \in Configs :
         /\ Adds(c) =>
               LET arg == config'[c].lastArg IN
               IF NamesReserved(arg)
               THEN /\ config'[c].addResult = "raised"
                    /\ config'[c].browser_args = config[c].browser_args
               ELSE /\ config'[c].addResult = "returned"
                    /\ config'[c].browser_args = Append(config[c].browser_args, arg)
         /\ Calls(c) =>
               \A a \in config[c].added : \E n \in DOMAIN config'[c].out : config'[c].out[n] = a]_vars

\* "--custom-flag=1" was added, "--Lang=de" was refused, and an argument
\* list returned afterwards holds the custom flag and not the refused one.
C19_Witness ==
    \E c \in Configs :
        /\ config[c].added = {CustomFlag}
        /\ config[c].lastArg = LangUpper /\ config[c].addResult = "raised"
        /\ config[c].called /\ config[c].seen = ArgState(config[c])
        /\ \E n \in DOMAIN config[c].out : config[c].out[n] = CustomFlag
        /\ \A n \in DOMAIN config[c].out : config[c].out[n] # LangUpper

\* The positions of a list that hold a flag starting with --load-extension.
LoadFlagsAt(flags) == { n \in DOMAIN flags : flags[n][1] = "--load-extension" }

\* A flag of the user starts with the given word.
UserGave(c, word) ==
    \E n \in DOMAIN config[c].browser_args : config[c].browser_args[n][1] = word

\* C20: with extensions prepared and no --load-extension flag from the user,
\* the list returned holds exactly one flag starting with --load-extension,
\* its value the prepared paths joined by commas in their order, and holds
\* the unsafe-extension-debugging flag unless the user supplied one (then it
\* holds the user's, once); when the user supplied a --load-extension flag,
\* every such flag in the list is one of the user's.
C20_OneLoadExtensionFlag ==
    [][\A c \in Configs : Calls(c) =>
         LET ext == config[c].extensions
             out == config'[c].out
             at  == LoadFlagsAt(out)
         IN
         /\ (ext # <<>> /\ ~UserGave(c, "--load-extension")) =>
               /\ Cardinality(at) = 1
               /\ \A n \in at :
                     out[n] = <<"--load-extension", "=">>
                                \o (IF Len(ext) = 1 THEN ext[1]
                                    ELSE ext[1] \o <<",">> \o ext[2])
               /\ Cardinality({ n \in DOMAIN out :
                                   out[n][1] = "--enable-unsafe-extension-debugging" }) = 1
         /\ UserGave(c, "--load-extension") =>
               \A n \in at : \E m \in DOMAIN config[c].browser_args :
                                  config[c].browser_args[m] = out[n]]_vars

\* A list was returned for a Config with a directory and an unpacked archive
\* prepared and nothing about extensions among the user's flags.
C20_Witness ==
    \E c \in Configs :
        /\ config[c].called /\ config[c].seen = ArgState(config[c])
        /\ Len(config[c].extensions) = 2
        /\ config[c].extensions[1] # config[c].extensions[2]
        /\ ~UserGave(c, "--load-extension")
        /\ Cardinality(LoadFlagsAt(config[c].out)) = 1

(***************************************************************************)
(* Properties of the temp namespace (SpecNamespace).                       *)
(***************************************************************************)
\* Config c has its profile directory.
HasProfile(c) == config[c].profile # NoProfile

\* The directories _prepare_extensions has made for c, each without its
\* last component ("/", "extension_" and the random part).
StagedParents(c) == { SubSeq(d, 1, Len(d) - 3) : d \in StagedBy(c) }

\* C21 as stated: when <tmp>/nodriver cannot be made, the profile directory
\* and every staged directory are made directly in the system temp directory.
C21_RootFailureFallsBackToTemp ==
    \A c \in Configs :
        ~stage.baseOk =>
            /\ HasProfile(c) => str(config[c].profile.dir) = <<"/", "tmp">>
            /\ StagedParents(c) \subseteq { <<"/", "tmp">> }

\* C21 amended: when <tmp>/nodriver cannot be made, the profile directory is
\* made in <tmp>/profiles and the staged directories in <tmp>/extensions
\* when that subdirectory can be made, and directly in the system temp
\* directory when it cannot.
C21_RootFailureFallsBackToChildOrTemp ==
    \A c \in Configs :
        ~stage.baseOk =>
            /\ HasProfile(c) =>
                  str(config[c].profile.dir)
                     = IF stage.subOk THEN <<"/", "tmp", "/", "profiles">> ELSE <<"/", "tmp">>
            /\ StagedParents(c) \subseteq
                  { IF stage.subOk THEN <<"/", "tmp", "/", "extensions">> ELSE <<"/", "tmp">> }

\* <tmp>/nodriver could not be made, <tmp>/profiles and <tmp>/extensions
\* could: the profile directory was allocated and a prepare has returned with
\* an archive unpacked.
C21_Witness ==
    \E c \in Configs :
        /\ ~stage.baseOk /\ stage.subOk
        /\ HasProfile(c)
        /\ config[c].op = "prepare" /\ config[c].result = "returned"
        /\ config[c].temp_extension_dirs # {}
        /\ StagedParents(c) # {}

(***************************************************************************)
(* Properties of Config.add_extension (SpecExtensions).                    *)
(***************************************************************************)
\* add_extension has just been called on c.
AddsExtension(c) == config'[c].ext_adds = config[c].ext_adds + 1

\* The source add_extension has just stored.
Stored(c) == config'[c].extension_sources[Len(config'[c].extension_sources)]

\* C22: add_extension on a directory stores the directory holding the first
\* manifest the recursive search finds, and the directory itself when the
\* search finds none.
C22_FirstManifestWins ==
    [][\A c \in Configs :
         (AddsExtension(c) /\ config'[c].extResult = "returned"
            /\ config'[c].lastExt \in {NestedSource, WrappedSource, SiblingSource, BareSource})
         => LET found == config'[c].lastMatches IN
            /\ Len(config'[c].extension_sources) = Len(config[c].extension_sources) + 1
            /\ Stored(c) = IF found = <<>>
                           THEN config'[c].lastExt
                           ELSE Path(SubSeq(found[1].parts, 1, Len(found[1].parts) - 1))]_vars

(***************************************************************************)
(* What the reapers leave alone (SpecConcurrent).                          *)
(***************************************************************************)
\* The name of entry e starts with a vendor prefix, plain or dot-prefixed.
VendorNamed(e) ==
    LET n == TempRoot[e].name IN
    \E k \in {0, 1} :
        /\ Len(n) >= k + 6
        /\ k = 1 => n[1] = "."
        /\ SubSeq(n, k + 1, k + 6) \in { <<"org", ".", "chromium", ".", "Chromium", ".">>,
                                         <<"com", ".", "google", ".", "Chrome", ".">> }

\* The name of entry e starts with uc_.
LegacyNamed(e) ==
    LET n == TempRoot[e].name IN Len(n) >= 2 /\ n[1] = "uc" /\ n[2] = "_"

\* The listing of pass p yields its current entry in this step.
Yields(p) == singleton[p].pc = "scan" /\ singleton'[p].pc = "stat"

\* C23: a reaper deletes only real directories directly under the temp root:
\* the singleton reaper only vendor-named ones, which it has enumerated only
\* if they held a SingletonSocket at that moment, the legacy reaper only
\* uc_-named ones; no pass changes anything else of an entry, and the
\* nodriver namespace is never deleted.
C23_ReapersTouchOnlyTheirCandidates ==
    [][/\ \A e \in Entries :
            Deleted(e) =>
               \/ /\ \E p \in Passes : SingletonRemoves(p, e)
                  /\ TempRoot[e].isdir /\ VendorNamed(e)
               \/ /\ \E p \in Passes : LegacyRemoves(p, e)
                  /\ TempRoot[e].isdir /\ LegacyNamed(e)
       /\ \A p \in Passes :
            Yields(p) =>
               LET e == singleton[p].d IN
               TempRoot[e].isdir /\ VendorNamed(e) /\ exists[e] /\ sock[e] # "absent"
       /\ \A e \in Entries : TempRoot[e].name = <<"nodriver">> => exists'[e]
       /\ sock' = sock /\ mtime' = mtime /\ contents' = contents]_vars

\* Two passes have ended: a vendor lock directory is deleted, the one without
\* a SingletonSocket, the nodriver namespace, the uc_ directories and the
\* vendor-named symlink are where they were.
C23_Witness ==
    /\ AllEnded
    /\ \E p \in Passes : singleton[p].pc = "done"
    /\ \E e \in VendorDirs : ~exists[e]
    /\ \E e \in VendorDirs : exists[e] /\ sock[e] = "absent"
    /\ \A e \in Entries \ VendorDirs : exists[e]

(***************************************************************************)
(* The argument list after a teardown (SpecArgs).                          *)
(***************************************************************************)
\* The staged directories Config c has removed.
TornDownBy(c) == { r.dir : r \in { x \in stage.removed : x.by = c } }

\* The last staging call on c was a cleanup, or a prepare that raised.
AfterTeardown(c) ==
    \/ config[c].op = "cleanup" /\ config[c].result = "returned"
    \/ config[c].op = "prepare" /\ config[c].result = "raised"

\* The --disable-features flag of a list carries the token that lets the
\* command line load extensions.
HasSwitchToken(flags) ==
    \E n \in DOMAIN flags :
        /\ flags[n][1] = "--disable-features"
        /\ \E k \in DOMAIN flags[n] : flags[n][k] = ",DisableLoadExtensionCommandLineSwitch"

\* C24: an argument list returned after cleanup_extensions(), or after a
\* _prepare_extensions() that raised, has no --load-extension flag but the
\* user's and no DisableLoadExtensionCommandLineSwitch token; no list
\* returned names a staged directory the Config has removed; the token is in
\* a list exactly when the prepared list is not empty.
C24_NoTornDownDirectoryInArguments ==
    [][\A c \in Configs : Calls(c) =>
         LET out == config'[c].out IN
         /\ AfterTeardown(c) =>
               /\ \A n \in LoadFlagsAt(out) :
                     \E m \in DOMAIN config[c].browser_args : config[c].browser_args[m] = out[n]
               /\ ~HasSwitchToken(out)
         /\ \A d \in TornDownBy(c) : \A n \in DOMAIN out : ~Contains(out[n], d)
         /\ HasSwitchToken(out) <=> config[c].extensions # <<>>]_vars

\* A prepare has staged an archive, the next prepare has removed the
\* directory and then raised, and an argument list was returned after that.
C24_Witness ==
    \E c \in Configs :
        /\ config[c].op = "prepare" /\ config[c].result = "raised"
        /\ TornDownBy(c) # {}
        /\ config[c].called /\ config[c].seen = ArgState(config[c])
        /\ LoadFlagsAt(config[c].out) = {}
        /\ ~HasSwitchToken(config[c].out)

(***************************************************************************)
(* The probe loop of cleanup_chromium_singleton_dirs (SpecSingleton).      *)
(***************************************************************************)
InProbeLoop(s) == s.pc \in {"stat", "connect", "sleep"}

\* Pass p is done with its current candidate in this step.
LeavesProbeLoop(p) == InProbeLoop(singleton[p]) /\ ~InProbeLoop(singleton'[p])

\* C25: a pass leaves a candidate either at the first probe with an active
\* outcome, or after exactly max(1, retries) probes that were all inactive,
\* and then to remove it; it sleeps only after an inactive probe that is not
\* the last one, and the next probe follows the sleep.
C25_ProbesAndSleeps ==
    [][\A p \in Passes :
         LET r == singleton[p].retries
             most == IF r >= 1 THEN r ELSE 1
             pr == singleton'[p].probes
         IN
         /\ LeavesProbeLoop(p) =>
               /\ pr # <<>>
               /\ \A n \in 1..(Len(pr) - 1) : pr[n] \in InactiveOutcomes
               /\ \/ /\ pr[Len(pr)] \notin InactiveOutcomes
                     /\ singleton'[p].pc = "scan"
                  \/ /\ pr[Len(pr)] \in InactiveOutcomes
                     /\ Len(pr) = most
                     /\ singleton'[p].pc = "remove"
         /\ (singleton[p].pc # "sleep" /\ singleton'[p].pc = "sleep") =>
               /\ pr # <<>> /\ pr[Len(pr)] \in InactiveOutcomes
               /\ Len(pr) < most
         /\ (singleton[p].pc = "sleep" /\ singleton'[p].pc # "sleep") =>
               singleton'[p].pc = "stat"]_vars

(***************************************************************************)
(* The session's profile directory and the legacy reaper (SpecNamespace).  *)
(***************************************************************************)
\* cleanup_legacy_uc_profile_dirs would take the directory for a candidate:
\* it is listed by os.scandir of the temp root and its name starts with uc_.
ListedAsLegacy(p) == str(p.dir) = TmpDir /\ startswith(p.name, LegacyPrefix)

\* C26: the profile directory temp_profile_dir() has allocated lies in
\* <tmp>/nodriver/profiles and is no candidate of the legacy reaper, whatever
\* became of the creation of the namespace.
C26_ProfileIsNoLegacyCandidate ==
    \A c \in Configs :
        HasProfile(c) =>
            /\ str(config[c].profile.dir) = <<"/", "tmp", "/", "nodriver", "/", "profiles">>
            /\ ~ListedAsLegacy(config[c].profile)

(***************************************************************************)
(* The user's flags and the reserved words (SpecArgs).                     *)
(***************************************************************************)
\* C27: no flag among the user's extra flags contains a reserved word,
\* however it came there, so that a list returned holds the headless flag
\* only for a headless Config and the no-sandbox flag only for one without
\* sandbox.
C27_NoReservedWordAmongUserFlags ==
    \A c \in Configs :
        /\ \A n \in DOMAIN config[c].browser_args : ~NamesReserved(config[c].browser_args[n])
        /\ config[c].called =>
              /\ (\E n \in DOMAIN config[c].out : config[c].out[n] = <<"--", "headless", "=new">>)
                    => config[c].headless
              /\ (\E n \in DOMAIN config[c].out : config[c].out[n] = <<"--", "no-sandbox">>)
                    => ~config[c].sandbox

====
